---- MODULE Spec2Model ----
(***************************************************************************)
(* A model of streamlet_rs: the consensus node of src/src/node.rs, the     *)
(* block chain of src/src/blockchain.rs and the hash / signature wrappers  *)
(* of src/src/crypto.rs.                                                   *)
(*                                                                         *)
(* Option<T> values are sequences: <<>> is None and <<x>> is Some(x).      *)
(* A process abort (a Rust panic) is the flag aborted[i].                  *)
(***************************************************************************)
EXTENDS Integers, Sequences, FiniteSets, TLC

(***************************************************************************)
(* Bounds of the model.                                                    *)
(***************************************************************************)
\* Payloads are the values 1..NumPayloads (T = u64 in the driver).
NumPayloads == 2
\* advance_epoch is taken while epoch_num < MaxEpoch.
MaxEpoch == 1
\* The free-running network proposes at most MaxProposals times and takes at
\* most MaxDeliveries messages off the buffer.
MaxProposals == 2
MaxDeliveries == 10
\* The single-node harness drives one of the nodes 0..MaxHarnessNode.
MaxHarnessNode == 1
\* The size of the membership registry in the network and in the harness.
NetNodes == 4
\* The test simulate: n_nodes nodes, n_rounds rounds, the leader proposing the
\* payload SimPayload each round.
n_nodes == 5
n_rounds == 10
SimPayload == 5
\* The registry sizes of the quorum harness.
NodeCounts == {4, 5, 7, 10}

VARIABLES
    n,                  \* NodeSetInfo::num_nodes(), node_pub_keys.len()
    epoch_num,          \* Node.epoch_num, per node
    chains,             \* Node.chains: height -> Vec<BlockChain>, per node
    votes,              \* Node.votes: digest -> (count, voters), per node
    proposal_recieved,  \* Node.proposal_recieved, per node
    aborted,            \* the node's process has panicked
    network_messages,   \* the driver's buffer of envelopes
    proposals,          \* number of propose calls the driver has made
    deliveries,         \* number of messages the free-running driver has taken
    last                \* the most recent call: operation, node, argument, return value

vars == <<n, epoch_num, chains, votes, proposal_recieved, aborted,
          network_messages, proposals, deliveries, last>>

(***************************************************************************)
(* crypto.rs                                                               *)
(***************************************************************************)
INITIAL_EPOCH == 0

Max(S) == CHOOSE x \in S : \A y \in S : y <= x

\* serde_json::to_string of a Block: its fields in declaration order.
Serialize(block) == <<block.payload, block.prev_hash, block.epoch>>

\* A digest taken over the epoch alone.
HashOf_epoch_only(block) == [digest |-> block.epoch]

\* HashOf::new: SHA-256 of the serialization. The digest is collision-free: it
\* is equal for two blocks exactly when their serializations are equal.
HashOf(block) == [digest |-> Serialize(block)]

\* The keypair of node id; key 0 belongs to no node.
Keypair(id) == [secret |-> id + 1, public |-> id + 1]
OutsiderKey == [secret |-> 0, public |-> 0]

\* Signed::new: an ed25519 signature binds the secret key and the signed bytes.
SignedNew(to_sign, keypair) ==
    [signature |-> [key |-> keypair.secret, bytes |-> Serialize(to_sign)],
     data |-> to_sign]

\* A verify that checks the signed bytes but not the key that signed them.
verify_any_key(signed, pk) ==
    signed.signature.bytes = Serialize(signed.data)

\* Signed::verify: Ok iff the signature was made over the serialization of
\* data with the secret key matching pk.
verify(signed, pk) ==
    /\ signed.signature.key = pk
    /\ signed.signature.bytes = Serialize(signed.data)

(***************************************************************************)
(* blockchain.rs                                                           *)
(***************************************************************************)
BlockNew(payload, prev_hash, epoch) ==
    [payload |-> <<payload>>, prev_hash |-> <<prev_hash>>, epoch |-> epoch]

genesis_block == [payload |-> <<>>, prev_hash |-> <<>>, epoch |-> INITIAL_EPOCH]

\* BlockChain::new
BlockChainNew == <<genesis_block>>

get_latest_block_hash(chain) == HashOf(chain[Len(chain)])

block_height(chain) == Len(chain)

\* BlockChain::add_block panics when the block has no parent hash or the
\* parent hash is not the hash of the latest block.
add_block_panics(chain, block) ==
    \/ block.prev_hash = <<>>
    \/ block.prev_hash[1] # get_latest_block_hash(chain)

\* An add_block that overwrites the latest block instead of pushing after it.
add_block_overwrite(chain, block) == [chain EXCEPT ![Len(chain)] = block]

add_block(chain, block) == Append(chain, block)

(***************************************************************************)
(* node.rs                                                                 *)
(***************************************************************************)
NodeIDs == 0 .. (n - 1)

\* NodeSetInfo.node_pub_keys: the public key of each node identity.
node_pub_keys == [id \in NodeIDs |-> Keypair(id).public]

\* NodeSetInfo::get_public_key: Vec::get, None when id is out of range.
get_public_key(id) == IF id \in NodeIDs THEN <<node_pub_keys[id]>> ELSE <<>>

num_nodes == n

get_leader == 0

is_leader(i) == get_leader = i

\* An every_node_except_me whose range stops one node short.
every_node_except_me_short(i) ==
    (0 .. (i - 1)) \cup ((i + 1) .. (num_nodes - 2))

every_node_except_me(i) == (0 .. (i - 1)) \cup ((i + 1) .. (num_nodes - 1))

\* validate_vote unwraps the voter's public key: a panic when it is None.
validate_vote_panics(voter) == get_public_key(voter) = <<>>

\* A validate_vote that accepts every signature.
validate_vote_unchecked(voter, vote) == TRUE

validate_vote(voter, vote) == verify(vote, get_public_key(voter)[1])

\* A message_is_valid_proposal that lets proposal_recieved gate the vote.
message_is_valid_proposal_gated(i, msg) ==
    /\ ~proposal_recieved[i]
    /\ msg.vote.data.epoch = epoch_num[i]
    /\ msg.voter = get_leader
    /\ validate_vote(msg.voter, msg.vote)

message_is_valid_proposal(i, msg) ==
    /\ msg.vote.data.epoch = epoch_num[i]
    /\ msg.voter = get_leader
    /\ validate_vote(msg.voter, msg.vote)

\* The canonical Byzantine bound, count > 2n/3, in place of the code's test.
has_quorum_canonical(count) == count > (2 * num_nodes) \div 3

\* A quorum test that asks for a simple majority.
has_quorum_majority(count) == count > num_nodes \div 2

\* The quorum test of handle_message (line 112).
has_quorum(count) == count > (2 * num_nodes) \div 3 + 1

\* BTreeMap::first_key_value in place of last_key_value.
first_key(chs) == CHOOSE x \in DOMAIN chs : \A y \in DOMAIN chs : x <= y

\* BTreeMap::last_entry / last_key_value: the entry at the greatest height.
last_key(chs) == Max(DOMAIN chs)

\* A removal that leaves the chain where it was.
RemoveAt_keep(s, idx) == s

\* Vec::remove
RemoveAt(s, idx) == SubSeq(s, 1, idx - 1) \o SubSeq(s, idx + 1, Len(s))

\* The position try_append_block's loop leaves in idx: the last chain of the
\* greatest height whose latest block hash is the block's parent hash.
append_matches(chs, new_block) ==
    {pos \in 1 .. Len(chs[last_key(chs)]) :
        get_latest_block_hash(chs[last_key(chs)][pos]) = new_block.prev_hash[1]}

\* try_append_block panics on a block with no parent hash (line 158).
try_append_block_panics(chs, new_block) ==
    \/ new_block.prev_hash = <<>>
    \/ /\ append_matches(chs, new_block) # {}
       /\ add_block_panics(chs[last_key(chs)][Max(append_matches(chs, new_block))],
                           new_block)

\* A try_append_block that keeps a block it cannot append as a chain of its own.
try_append_block_keep_orphan(chs, new_block) ==
    LET matches == append_matches(chs, new_block) IN
    IF matches = {} THEN (1 :> Append(chs[1], <<new_block>>)) @@ chs
    ELSE LET idx == Max(matches)
             top == last_key(chs)
             chain == add_block(chs[top][idx], new_block)
             height == block_height(chain)
         IN (height :> <<chain>>) @@ [chs EXCEPT ![top] = RemoveAt(chs[top], idx)]

try_append_block(chs, new_block) ==
    LET matches == append_matches(chs, new_block) IN
    IF matches = {} THEN chs
    ELSE LET idx == Max(matches)
             top == last_key(chs)
             chain == add_block(chs[top][idx], new_block)
             height == block_height(chain)
         IN (height :> <<chain>>) @@ [chs EXCEPT ![top] = RemoveAt(chs[top], idx)]

\* peek_longest_chain indexes the first chain of the greatest height.
peek_longest_chain_panics(i) == Len(chains[i][last_key(chains[i])]) = 0

peek_longest_chain(i) == chains[i][last_key(chains[i])][1]

Message(recipients, vote, voter) ==
    [recipients |-> recipients, vote |-> vote, voter |-> voter]

\* A propose that always builds on the genesis chain.
propose_on_genesis(i, payload) ==
    LET prev_hash == get_latest_block_hash(BlockChainNew)
        block == BlockNew(payload, prev_hash, epoch_num[i])
    IN Message(every_node_except_me(i), SignedNew(block, Keypair(i)), i)

\* Node::propose
propose(i, payload) ==
    LET prev_hash == get_latest_block_hash(peek_longest_chain(i))
        block == BlockNew(payload, prev_hash, epoch_num[i])
    IN Message(every_node_except_me(i), SignedNew(block, Keypair(i)), i)

\* The (count, voters) entry of the tally after or_insert.
vote_entry(i, hash) ==
    IF hash \in DOMAIN votes[i] THEN votes[i][hash] ELSE [count |-> 0, voters |-> {}]

\* A tally that ignores the result of HashSet::insert.
already_voted_ignored(entry, voter) == FALSE

\* HashSet::insert on the entry's voters returns false for a voter it holds
\* (line 109).
already_voted(entry, voter) == voter \in entry.voters

\* Node::handle_message: the node's fields after the call, the returned
\* messages, and whether the call panicked instead of returning.
handle_message(i, msg) ==
    LET same == [panic |-> FALSE, votes |-> votes[i], chains |-> chains[i],
                 proposal_recieved |-> proposal_recieved[i], messages |-> <<>>]
    IN
    IF validate_vote_panics(msg.voter) THEN [same EXCEPT !.panic = TRUE]
    ELSE IF ~validate_vote(msg.voter, msg.vote) THEN same
    ELSE
      LET new_block == msg.vote.data
          hash == HashOf(new_block)
          entry == vote_entry(i, hash)
      IN
      IF already_voted(entry, msg.voter) THEN same
      ELSE
        LET count == entry.count + 1
            votes1 == (hash :> [count |-> count,
                                voters |-> entry.voters \cup {msg.voter}]) @@ votes[i]
            echo_message == Message(every_node_except_me(i), msg.vote, msg.voter)
            vote_message == Message(every_node_except_me(i),
                                    SignedNew(new_block, Keypair(i)), i)
        IN
        IF has_quorum(count) /\ try_append_block_panics(chains[i], new_block)
        THEN [same EXCEPT !.panic = TRUE, !.votes = votes1]
        ELSE
          [panic |-> FALSE,
           votes |-> votes1,
           chains |-> IF has_quorum(count)
                      THEN try_append_block(chains[i], new_block)
                      ELSE chains[i],
           proposal_recieved |-> proposal_recieved[i] \/ message_is_valid_proposal(i, msg),
           messages |-> IF message_is_valid_proposal(i, msg)
                        THEN <<echo_message, vote_message>>
                        ELSE <<echo_message>>]

(***************************************************************************)
(* State machine                                                           *)
(***************************************************************************)
NoMessage == Message({}, SignedNew(genesis_block, OutsiderKey), 0)

Call(op, i, msg, ret) == [op |-> op, node |-> i, msg |-> msg, ret |-> ret]

Range(s) == {s[k] : k \in 1 .. Len(s)}

\* Node::new for every node of a registry of size k.
InitNodes(k) ==
    /\ n = k
    /\ epoch_num = [i \in 0 .. (k - 1) |-> INITIAL_EPOCH]
    /\ chains = [i \in 0 .. (k - 1) |->
                    (block_height(BlockChainNew) :> <<BlockChainNew>>)]
    /\ votes = [i \in 0 .. (k - 1) |-> <<>>]
    /\ proposal_recieved = [i \in 0 .. (k - 1) |-> FALSE]
    /\ aborted = [i \in 0 .. (k - 1) |-> FALSE]
    /\ network_messages = {}
    /\ proposals = 0
    /\ deliveries = 0
    /\ last = Call("new", 0, NoMessage, <<>>)

\* One call nodes[i].handle_message(&msg) by a caller that keeps the returned
\* messages to itself.
HandleAt(i, msg) ==
    \E r \in {handle_message(i, msg)} :
        /\ ~aborted[i]
        /\ votes' = [votes EXCEPT ![i] = r.votes]
        /\ chains' = [chains EXCEPT ![i] = r.chains]
        /\ proposal_recieved' = [proposal_recieved EXCEPT ![i] = r.proposal_recieved]
        /\ aborted' = [aborted EXCEPT ![i] = r.panic]
        /\ last' = Call("handle_message", i, msg, r.messages)
        /\ UNCHANGED <<n, epoch_num, network_messages, proposals, deliveries>>

\* The record of a call made by the driver's loop rather than by a harness.
DriverCall == Call("simulate_protocol", 0, NoMessage, <<>>)

\* One call nodes[i].propose(payload). With push the caller is the driver, which
\* pushes the returned message on its buffer (line 215); without, a harness that
\* keeps the returned message to itself.
Propose(i, payload, push) ==
    /\ ~aborted[i]
    /\ IF peek_longest_chain_panics(i)
       THEN /\ aborted' = [aborted EXCEPT ![i] = TRUE]
            /\ last' = Call("propose", i, NoMessage, <<>>)
            /\ UNCHANGED <<network_messages, proposals>>
       ELSE /\ network_messages' = IF push
                                   THEN network_messages \cup {propose(i, payload)}
                                   ELSE network_messages
            /\ proposals' = IF push THEN proposals + 1 ELSE proposals
            /\ last' = IF push THEN DriverCall
                       ELSE Call("propose", i, NoMessage, <<propose(i, payload)>>)
            /\ UNCHANGED aborted
    /\ UNCHANGED <<n, epoch_num, chains, votes, proposal_recieved, deliveries>>

\* The driver takes a buffered message and calls handle_message on each of its
\* recipients, pushing what they return (lines 219-223). The recipients are
\* distinct nodes, so the order of the inner loop does not change the result.
\* A panic in any call ends the driver's process, and with it every node.
\* The buffer is a set and keeps the message: it may be delivered again.
DeliverAll(msg, counted) ==
    \E r \in {[i \in msg.recipients |-> handle_message(i, msg)]} :
        /\ msg \in network_messages
        /\ ~\E i \in NodeIDs : aborted[i]
        /\ votes' = [i \in NodeIDs |->
                IF i \in msg.recipients THEN r[i].votes ELSE votes[i]]
        /\ chains' = [i \in NodeIDs |->
                IF i \in msg.recipients THEN r[i].chains ELSE chains[i]]
        /\ proposal_recieved' = [i \in NodeIDs |->
                IF i \in msg.recipients THEN r[i].proposal_recieved
                ELSE proposal_recieved[i]]
        /\ aborted' = [i \in NodeIDs |-> \E j \in msg.recipients : r[j].panic]
        /\ network_messages' = network_messages \cup
                UNION {Range(r[i].messages) : i \in msg.recipients}
        /\ deliveries' = IF counted THEN deliveries + 1 ELSE deliveries
        /\ last' = DriverCall
        /\ UNCHANGED <<n, epoch_num, proposals>>

\* Node::advance_epoch on node i.
AdvanceEpoch(i) ==
    /\ ~aborted[i]
    /\ epoch_num[i] < MaxEpoch
    /\ epoch_num' = [epoch_num EXCEPT ![i] = epoch_num[i] + 1]
    /\ last' = Call("advance_epoch", i, NoMessage, <<>>)
    /\ UNCHANGED <<n, chains, votes, proposal_recieved, aborted,
                   network_messages, proposals, deliveries>>

\* The driver's loop over all nodes calling advance_epoch (lines 225-227).
AdvanceAll ==
    /\ ~\E i \in NodeIDs : aborted[i] \/ epoch_num[i] >= MaxEpoch
    /\ epoch_num' = [i \in NodeIDs |-> epoch_num[i] + 1]
    /\ last' = DriverCall
    /\ UNCHANGED <<n, chains, votes, proposal_recieved, aborted,
                   network_messages, proposals, deliveries>>

\* handle_message(i, msg) would change nothing and return nothing.
NoEffect(i, msg) ==
    LET r == handle_message(i, msg) IN
    /\ ~r.panic
    /\ r.messages = <<>>
    /\ r.votes = votes[i]
    /\ r.chains = chains[i]

\* The driver's buffer is drained (line 218): every message it holds has been
\* handled by every one of its recipients, so no delivery has any effect left.
Drained == ~\E msg \in network_messages : \E i \in msg.recipients : ~NoEffect(i, msg)

(***************************************************************************)
(* Spec: simulate_protocol with NetNodes nodes. Each round the leader      *)
(* proposes, the buffer is delivered in any order until it is drained, and *)
(* every node advances its epoch.                                          *)
(***************************************************************************)
Init == InitNodes(NetNodes)

RoundPropose ==
    \E i \in NodeIDs, payload \in 1 .. NumPayloads :
        /\ is_leader(i)
        /\ proposals = epoch_num[i]
        /\ Drained
        /\ Propose(i, payload, TRUE)

RoundDeliver == \E msg \in network_messages : DeliverAll(msg, FALSE)

RoundAdvance ==
    /\ proposals = epoch_num[get_leader] + 1
    /\ Drained
    /\ AdvanceAll

Next == RoundPropose \/ RoundDeliver \/ RoundAdvance

Spec == Init /\ [][Next]_vars

\* SpecGossip: Spec with the fairness of the driver's delivery loop, which keeps
\* taking messages while the buffer holds one that is not yet handled.
SpecGossip == Init /\ [][Next]_vars /\ WF_vars(RoundDeliver)

(***************************************************************************)
(* SpecAsync: the same nodes driven freely. The leader proposes at any     *)
(* time, the epoch loop runs at any time, and buffered messages are        *)
(* delivered in any order, any number of times.                            *)
(***************************************************************************)
AsyncPropose ==
    \E i \in NodeIDs, payload \in 1 .. NumPayloads :
        /\ is_leader(i)
        /\ proposals < MaxProposals
        /\ Propose(i, payload, TRUE)

AsyncDeliver ==
    \E msg \in network_messages :
        /\ deliveries < MaxDeliveries
        /\ DeliverAll(msg, TRUE)

AsyncAdvance == AdvanceAll

NextAsync == AsyncPropose \/ AsyncDeliver \/ AsyncAdvance

SpecAsync == Init /\ [][NextAsync]_vars

(***************************************************************************)
(* Harnesses: one node is called directly with messages drawn from a       *)
(* bounded set, as a unit test or an adversarial peer would call it.       *)
(***************************************************************************)
\* The node under test is fixed by the first call.
UnderTest(i) ==
    /\ i \in 0 .. MaxHarnessNode
    /\ i \in NodeIDs
    /\ last.op = "new" \/ last.node = i

\* The votes an honest voter signs for the blocks of a set.
HonestVotes(blocks) ==
    {Message({}, SignedNew(block, Keypair(voter)), voter) :
        block \in blocks, voter \in NodeIDs}

\* Votes attributed to a registered voter whose signature does not verify:
\* signed with a key of no node, signed with the next node's key, or carrying
\* another block than the signed one.
ForgedVotes(blocks) ==
    {Message({}, SignedNew(block, OutsiderKey), voter) :
        block \in blocks, voter \in NodeIDs}
    \cup {Message({}, SignedNew(block, Keypair((voter + 1) % n)), voter) :
        block \in blocks, voter \in NodeIDs}
    \cup {Message({}, [SignedNew(genesis_block, Keypair(voter)) EXCEPT !.data = block],
                  voter) : block \in blocks, voter \in NodeIDs}

\* Votes attributed to an identity the registry does not hold.
UnknownVoterVotes(blocks) ==
    {Message({}, SignedNew(block, Keypair(signer)), n) :
        block \in blocks, signer \in {0, n}}

\* Two leader blocks on the genesis block, one per epoch.
NodeBlocks ==
    {BlockNew(1, HashOf(genesis_block), INITIAL_EPOCH),
     BlockNew(2, HashOf(genesis_block), INITIAL_EPOCH + 1)}

NodeMessages ==
    HonestVotes(NodeBlocks) \cup ForgedVotes(NodeBlocks) \cup UnknownVoterVotes(NodeBlocks)

Handle(messages) ==
    \E i \in NodeIDs, msg \in messages : UnderTest(i) /\ HandleAt(i, msg)

NodeHandle == Handle(NodeMessages)

NodeAdvance == \E i \in NodeIDs : UnderTest(i) /\ AdvanceEpoch(i)

NodePropose ==
    \E i \in NodeIDs, payload \in 1 .. NumPayloads :
        UnderTest(i) /\ Propose(i, payload, FALSE)

NextNode == NodeHandle \/ NodeAdvance \/ NodePropose

\* SpecNode: a node of a NetNodes registry under valid, forged and unknown
\* voters' votes for NodeBlocks.
SpecNode == Init /\ [][NextNode]_vars

\* SpecParentless: a node of a NetNodes registry under validly signed votes
\* for a block that has no parent hash.
ParentlessHandle == Handle(HonestVotes({genesis_block}))

NextParentless == ParentlessHandle \/ NodeAdvance

SpecParentless == Init /\ [][NextParentless]_vars

\* SpecQuorum: a node of a registry of one of the sizes NodeCounts under the
\* registered voters' votes for one block on the genesis block.
InitQuorum == \E k \in NodeCounts : InitNodes(k)

QuorumBlock == BlockNew(1, HashOf(genesis_block), INITIAL_EPOCH)

QuorumHandle == Handle(HonestVotes({QuorumBlock}))

NextQuorum == QuorumHandle

SpecQuorum == InitQuorum /\ [][NextQuorum]_vars

(***************************************************************************)
(* SpecSim: the test simulate, simulate_protocol(n_nodes, n_rounds): each  *)
(* round the leader proposes SimPayload, the buffer is delivered in any    *)
(* order until it is drained, and every node advances its epoch.           *)
(***************************************************************************)
InitSim == InitNodes(n_nodes)

SimPropose ==
    \E i \in NodeIDs :
        /\ is_leader(i)
        /\ proposals = epoch_num[i]
        /\ proposals < n_rounds
        /\ Drained
        /\ Propose(i, SimPayload, TRUE)

SimDeliver == \E msg \in network_messages : DeliverAll(msg, FALSE)

SimAdvance ==
    /\ proposals = epoch_num[get_leader] + 1
    /\ Drained
    /\ ~\E i \in NodeIDs : aborted[i]
    /\ epoch_num' = [i \in NodeIDs |-> epoch_num[i] + 1]
    /\ last' = DriverCall
    /\ UNCHANGED <<n, chains, votes, proposal_recieved, aborted,
                   network_messages, proposals, deliveries>>

NextSim == SimPropose \/ SimDeliver \/ SimAdvance

SpecSim == InitSim /\ [][NextSim]_vars

\* SpecRevote: a node of a NetNodes registry under the leader's and node 1's
\* votes for two different blocks on the genesis block in each epoch.
RevoteBlocks ==
    {BlockNew(payload, HashOf(genesis_block), epoch) :
        payload \in 1 .. 2, epoch \in INITIAL_EPOCH .. (INITIAL_EPOCH + 1)}

RevoteMessages == {msg \in HonestVotes(RevoteBlocks) : msg.voter \in {get_leader, 1}}

RevoteHandle == Handle(RevoteMessages)

NextRevote == RevoteHandle \/ NodeAdvance

SpecRevote == Init /\ [][NextRevote]_vars

(***************************************************************************)
(* Properties                                                              *)
(***************************************************************************)
IsPrefix(a, b) == Len(a) <= Len(b) /\ \A k \in 1 .. Len(a) : a[k] = b[k]

\* The chains node i holds at its greatest height.
LongestChains(i) == Range(chains[i][last_key(chains[i])])

\* Every chain of node i's chain store.
StoredChains(i) == UNION {Range(chains[i][h]) : h \in DOMAIN chains[i]}

\* The blocks the buffered messages carry.
BlocksSeen == {msg.vote.data : msg \in network_messages}

\* The number of distinct voters node i has recorded for a block.
VoteCount(i, block) ==
    IF HashOf(block) \in DOMAIN votes[i] THEN votes[i][HashOf(block)].count ELSE 0

\* Node i has recorded voter's vote for the block of msg.
Recorded(i, msg) ==
    /\ HashOf(msg.vote.data) \in DOMAIN votes[i]
    /\ msg.voter \in votes[i][HashOf(msg.vote.data)].voters

\* msg carries the signature its voter's own key makes over its block.
Genuine(msg) ==
    /\ msg.voter \in NodeIDs
    /\ msg.vote.signature = [key |-> msg.voter + 1,
                             bytes |-> <<msg.vote.data.payload,
                                         msg.vote.data.prev_hash,
                                         msg.vote.data.epoch>>]

\* The echo of msg by node i and node i's own vote for the block of msg.
EchoOf(i, msg) ==
    [recipients |-> NodeIDs \ {i}, vote |-> msg.vote, voter |-> msg.voter]

OwnVoteOf(i, msg) ==
    [recipients |-> NodeIDs \ {i},
     vote |-> [signature |-> [key |-> i + 1,
                              bytes |-> <<msg.vote.data.payload,
                                          msg.vote.data.prev_hash,
                                          msg.vote.data.epoch>>],
               data |-> msg.vote.data],
     voter |-> i]

NodeStateUnchanged ==
    UNCHANGED <<votes, chains, epoch_num, proposal_recieved, aborted, network_messages>>

\* C1 (Agreement): in every reachable state of the free-running network, any
\* two chains held at the greatest height by any two nodes are one a prefix of
\* the other. Violated: two leader blocks on the same parent both gather every
\* vote, and two nodes see them reach quorum in opposite orders.
C1_Agreement ==
    \A i \in NodeIDs, j \in NodeIDs :
        \A a \in LongestChains(i), b \in LongestChains(j) :
            IsPrefix(a, b) \/ IsPrefix(b, a)

\* C2 (scenario A): once the leader has proposed payload p at epoch 0 and the
\* buffer is drained with every node still at epoch 0, every node stores a chain
\* of height 2 whose last block has payload p.
C2_ScenarioA ==
    \A p \in 1 .. NumPayloads :
        ( /\ proposals = 1
          /\ \A i \in NodeIDs : epoch_num[i] = INITIAL_EPOCH
          /\ network_messages # {}
          /\ \A msg \in network_messages : msg.vote.data.payload = <<p>>
          /\ Drained )
        => \A i \in NodeIDs :
              /\ 2 \in DOMAIN chains[i]
              /\ \E c \in Range(chains[i][2]) : Len(c) = 2 /\ c[2].payload = <<p>>

C2_Witness ==
    /\ n = 4
    /\ proposals = 1
    /\ \A i \in NodeIDs : epoch_num[i] = INITIAL_EPOCH
    /\ \E msg \in network_messages : msg.vote.data.payload = <<1>> /\ msg.voter = 0
    /\ Drained

\* C3 (unknown voter): a handle_message call whose message names a voter outside
\* the registry returns no messages, changes nothing and leaves the node
\* running. Violated: validate_vote unwraps the missing public key.
C3_UnknownVoterDiscarded ==
    [][ (last'.op = "handle_message" /\ last'.msg.voter \notin NodeIDs)
        => (last'.ret = <<>> /\ NodeStateUnchanged) ]_vars

\* C4 (no abort): a handle_message call with a validly signed block from a
\* registered voter never aborts the node. Violated: the vote that takes a
\* block without parent hash over the quorum threshold.
C4_NeverAborts ==
    (last.op = "handle_message" /\ Genuine(last.msg)) => ~aborted[last.node]

\* C5 (scenario C): when two different blocks with the same parent have both
\* reached quorum at a node, the node stores two chains of one height, one
\* ending in each block. Violated: the second block finds no chain to extend.
C5_TwoForks ==
    \A i \in NodeIDs : \A b1 \in BlocksSeen, b2 \in BlocksSeen :
        ( /\ b1 # b2
          /\ b1.prev_hash = b2.prev_hash
          /\ VoteCount(i, b1) > (2 * n) \div 3 + 1
          /\ VoteCount(i, b2) > (2 * n) \div 3 + 1 )
        => \E h \in DOMAIN chains[i] :
              \E c1 \in Range(chains[i][h]), c2 \in Range(chains[i][h]) :
                  c1[Len(c1)] = b1 /\ c2[Len(c2)] = b2

\* C6 (scenario B): a handle_message call whose message names a registered voter
\* but carries a signature that voter's key did not make over the block returns
\* no messages and changes nothing.
C6_ForgedDiscarded ==
    [][ (last'.op = "handle_message" /\ last'.msg.voter \in NodeIDs
            /\ ~Genuine(last'.msg))
        => (last'.ret = <<>> /\ NodeStateUnchanged) ]_vars

C6_Witness ==
    /\ last.op = "handle_message"
    /\ last.msg.voter \in NodeIDs
    /\ ~Genuine(last.msg)
    /\ last.msg.vote.signature.key = ((last.msg.voter + 1) % n) + 1
    /\ VoteCount(last.node, last.msg.vote.data) = 2
    /\ ~Recorded(last.node, last.msg)

\* C7 (vote idempotence): a handle_message call with a validly signed vote whose
\* (digest, voter) pair the node has already recorded returns no messages and
\* changes nothing, the count included.
C7_VoteIdempotent ==
    [][ (last'.op = "handle_message" /\ Genuine(last'.msg)
            /\ Recorded(last'.node, last'.msg))
        => (last'.ret = <<>> /\ NodeStateUnchanged) ]_vars

C7_Witness ==
    /\ last.op = "handle_message"
    /\ Genuine(last.msg)
    /\ last.ret = <<>>
    /\ Recorded(last.node, last.msg)
    /\ VoteCount(last.node, last.msg.vote.data) = 3
    /\ epoch_num[last.node] = 1

\* C8 (quorum threshold): the voted block has been appended iff its count of
\* distinct voters exceeds floor(2n/3) + 1, and the smallest such count is
\* 4, 5, 6, 8 for n = 4, 5, 7, 10.
MinQuorum == (4 :> 4) @@ (5 :> 5) @@ (7 :> 6) @@ (10 :> 8)

C8_QuorumThreshold ==
    \A i \in NodeIDs :
        LET appended == \E c \in StoredChains(i) : c[Len(c)] = QuorumBlock IN
        /\ appended <=> VoteCount(i, QuorumBlock) > (2 * n) \div 3 + 1
        /\ appended <=> VoteCount(i, QuorumBlock) >= MinQuorum[n]

C8_Witness ==
    /\ n = 7
    /\ last.op = "handle_message"
    /\ VoteCount(last.node, QuorumBlock) = 6
    /\ \E c \in StoredChains(last.node) : c[Len(c)] = QuorumBlock

\* C9 (echo completeness): a handle_message call with a validly signed vote of a
\* registered voter that the node had not recorded returns normally, and the
\* first returned message is the echo: the same signed vote, attributed to the
\* original voter, addressed to every participant but the handling node. The
\* only other message it may return is the node's own vote. Violated: the vote
\* that takes a block without parent hash over the quorum threshold aborts the
\* call before the echo is built (see C4).
C9_EchoComplete ==
    [][ (last'.op = "handle_message" /\ Genuine(last'.msg)
            /\ ~Recorded(last'.node, last'.msg))
        => ( /\ ~aborted'[last'.node]
             /\ Len(last'.ret) \in {1, 2}
             /\ last'.ret[1] = EchoOf(last'.node, last'.msg)
             /\ Len(last'.ret) = 2 => last'.ret[2].voter = last'.node ) ]_vars

\* C10 (proposal validity): a handle_message call with a newly recorded, validly
\* signed vote returns the echo followed by the node's own vote when the block's
\* epoch is the node's epoch_num and the voter is node 0, and the echo alone
\* otherwise. Violated: the vote that takes a block without parent hash over
\* the quorum threshold aborts the call before any message is built (see C4).
C10_ProposalValidity ==
    [][ (last'.op = "handle_message" /\ Genuine(last'.msg)
            /\ ~Recorded(last'.node, last'.msg))
        => ( IF last'.msg.vote.data.epoch = epoch_num[last'.node]
                /\ last'.msg.voter = 0
             THEN last'.ret = <<EchoOf(last'.node, last'.msg),
                                OwnVoteOf(last'.node, last'.msg)>>
             ELSE last'.ret = <<EchoOf(last'.node, last'.msg)>> ) ]_vars

\* C11 (chain invariant): every chain stored at any height of any node starts
\* with the genesis block, is as long as the height it is stored under, and each
\* later block carries the digest of the block before it as its parent hash.
C11_ChainInvariant ==
    \A i \in NodeIDs : \A h \in DOMAIN chains[i] : \A c \in Range(chains[i][h]) :
        /\ Len(c) = h
        /\ c[1] = [payload |-> <<>>, prev_hash |-> <<>>, epoch |-> 0]
        /\ \A k \in 2 .. Len(c) : c[k].prev_hash = <<HashOf(c[k - 1])>>

C11_Witness ==
    \E i \in NodeIDs :
        /\ 3 \in DOMAIN chains[i]
        /\ Len(chains[i][3]) = 1
        /\ Len(chains[i][3][1]) = 3

\* C12 (vote tally invariant): for every digest of every node's tally the count
\* is the number of voters in the voter set, every voter is a registered
\* identity, no count exceeds n, and a voter enters the set only through a
\* handle_message call with that voter's genuine signature on that block.
TallyCounts ==
    \A i \in NodeIDs : \A h \in DOMAIN votes[i] :
        /\ votes[i][h].count = Cardinality(votes[i][h].voters)
        /\ votes[i][h].voters \subseteq NodeIDs
        /\ votes[i][h].count <= n

C12_TallyInvariant ==
    [][ /\ TallyCounts'
        /\ \A i \in NodeIDs : \A h \in DOMAIN votes'[i] : \A v \in votes'[i][h].voters :
              (h \notin DOMAIN votes[i] \/ v \notin votes[i][h].voters)
              => /\ last'.op = "handle_message"
                 /\ last'.node = i
                 /\ last'.msg.voter = v
                 /\ HashOf(last'.msg.vote.data) = h
                 /\ Genuine(last'.msg) ]_vars

C12_Witness ==
    /\ last.op = "handle_message"
    /\ ~Genuine(last.msg)
    /\ \E h1 \in DOMAIN votes[last.node], h2 \in DOMAIN votes[last.node] :
          /\ votes[last.node][h1].count = 4
          /\ votes[last.node][h2].voters = {1, 3}

\* C13 (quorum-certified growth): every non-genesis block of every stored chain
\* has, in the same node's tally, a count greater than floor(2n/3) + 1, and the
\* chain store changes only in a handle_message call, never in propose or
\* advance_epoch.
QuorumCertified ==
    \A i \in NodeIDs : \A c \in StoredChains(i) : \A k \in 2 .. Len(c) :
        VoteCount(i, c[k]) > (2 * n) \div 3 + 1

C13_CertifiedGrowth ==
    [][ /\ QuorumCertified'
        /\ chains' # chains => last'.op = "handle_message" ]_vars

C13_Witness ==
    /\ last.op \in {"propose", "advance_epoch"}
    /\ 2 \in DOMAIN chains[last.node]
    /\ \E c \in Range(chains[last.node][2]) : c[2].payload = <<2>>
    /\ \E h \in DOMAIN votes[last.node] : votes[last.node][h].count = 3

\* C14 (orphaned block): a handle_message call whose newly recorded vote takes a
\* block's count above the quorum threshold while no chain at the node's
\* greatest height ends in the block's parent leaves the chain store unchanged,
\* and still records the vote and returns the echo.
C14_OrphanDropped ==
    [][ LET i == last'.node
            msg == last'.msg
            block == msg.vote.data
        IN ( /\ last'.op = "handle_message"
             /\ Genuine(msg)
             /\ ~Recorded(i, msg)
             /\ block.prev_hash # <<>>
             /\ VoteCount(i, block) + 1 > (2 * n) \div 3 + 1
             /\ \A c \in LongestChains(i) : <<HashOf(c[Len(c)])>> # block.prev_hash )
           => ( /\ chains' = chains
                /\ ~aborted'[i]
                /\ HashOf(block) \in DOMAIN votes'[i]
                /\ votes'[i][HashOf(block)].count = VoteCount(i, block) + 1
                /\ msg.voter \in votes'[i][HashOf(block)].voters
                /\ Len(last'.ret) >= 1
                /\ last'.ret[1] = EchoOf(i, msg) ) ]_vars

C14_Witness ==
    /\ last.op = "handle_message"
    /\ Genuine(last.msg)
    /\ last.ret # <<>>
    /\ VoteCount(last.node, last.msg.vote.data) = 4
    /\ \A c \in StoredChains(last.node) : c[Len(c)] # last.msg.vote.data
    /\ \E c \in LongestChains(last.node) : Len(c) = 2

\* C15 (re-voting within an epoch): proposal_recieved does not gate voting. A
\* handle_message call with the first delivery of a genuine leader vote for a
\* block of the node's epoch returns the node's own vote also when the flag is
\* set and the leader's vote for another block of that epoch is recorded; and
\* no call, advance_epoch included, clears the flag once it is set.
C15_Revoting ==
    [][ /\ LET i == last'.node
                msg == last'.msg
                block == msg.vote.data
            IN ( /\ last'.op = "handle_message"
                 /\ Genuine(msg)
                 /\ ~Recorded(i, msg)
                 /\ msg.voter = 0
                 /\ block.epoch = epoch_num[i]
                 /\ proposal_recieved[i]
                 /\ \E other \in RevoteMessages :
                       /\ other.voter = 0
                       /\ other.vote.data # block
                       /\ other.vote.data.epoch = block.epoch
                       /\ Recorded(i, other) )
               => ( /\ Len(last'.ret) = 2
                    /\ last'.ret[2] = OwnVoteOf(i, msg) )
        /\ \A i \in NodeIDs : proposal_recieved[i] => proposal_recieved'[i] ]_vars

C15_Witness ==
    /\ last.op = "handle_message"
    /\ epoch_num[last.node] = 0
    /\ last.msg.voter = 0
    /\ last.msg.vote.data.epoch = 0
    /\ Len(last.ret) = 2
    /\ last.ret[2] = OwnVoteOf(last.node, last.msg)
    /\ \E other \in RevoteMessages :
          /\ other.voter = 0
          /\ other.vote.data # last.msg.vote.data
          /\ other.vote.data.epoch = 0
          /\ Recorded(last.node, other)

\* C16 (propose): a propose call on any node, leader or not, returns one
\* envelope whose block has the node's epoch_num and the tip digest of the chain
\* at its greatest height as parent hash, signed by and attributed to the node,
\* addressed to every participant but the node; the call changes no field of
\* the node, its tally included.
C16_Propose ==
    [][ last'.op = "propose"
        => LET i == last'.node IN
           /\ ~aborted'[i]
           /\ Len(last'.ret) = 1
           /\ last'.ret[1].voter = i
           /\ last'.ret[1].recipients = NodeIDs \ {i}
           /\ Genuine(last'.ret[1])
           /\ last'.ret[1].vote.data.epoch = epoch_num[i]
           /\ last'.ret[1].vote.data.payload # <<>>
           /\ \E c \in LongestChains(i) :
                 last'.ret[1].vote.data.prev_hash = <<HashOf(c[Len(c)])>>
           /\ NodeStateUnchanged ]_vars

C16_Witness ==
    /\ last.op = "propose"
    /\ last.node = 1
    /\ epoch_num[1] = 1
    /\ Len(last.ret) = 1
    /\ \E c \in LongestChains(1) : Len(c) = 2
    /\ votes[1] # <<>>

\* C17 (multi-round progress): under the test driver with 5 nodes no node ever
\* aborts, and once round r (r = 1..10) has been proposed and the buffer is
\* drained, before and after the round's advance_epoch calls, every node holds
\* at its greatest height r + 1 one chain of r + 1 blocks, the same at every
\* node.
C17_Progress ==
    /\ \A i \in NodeIDs : ~aborted[i]
    /\ \A r \in 1 .. 10 :
          (proposals = r /\ Drained)
          => \A i \in NodeIDs :
                /\ Max(DOMAIN chains[i]) = r + 1
                /\ Len(chains[i][r + 1]) = 1
                /\ Len(chains[i][r + 1][1]) = r + 1
                /\ chains[i][r + 1] = chains[0][r + 1]

C17_Witness ==
    /\ n = 5
    /\ proposals = 10
    /\ \A i \in NodeIDs : epoch_num[i] = 10
    /\ \A i \in NodeIDs : Len(chains[i][11][1]) = 11

\* C18 (gossip terminates): handling a buffered envelope whose (digest, voter)
\* pair the node has recorded returns nothing; handling any other returns at
\* most the echo and the own vote, the own vote only for the leader's pair (so
\* once per digest); recorded pairs stay recorded; and the delivery loop always
\* drains the buffer.
RecordedPairs ==
    {<<i, h, v>> \in UNION {{i} \X (DOMAIN votes[i]) \X NodeIDs : i \in NodeIDs} :
        v \in votes[i][h].voters}

EmitsOncePerPair ==
    \A msg \in network_messages : \A i \in msg.recipients :
        /\ Recorded(i, msg) => handle_message(i, msg).messages = <<>>
        /\ Len(handle_message(i, msg).messages) <= 2
        /\ Len(handle_message(i, msg).messages) = 2 => msg.voter = 0

C18_GossipTerminates ==
    /\ []EmitsOncePerPair
    /\ [][RecordedPairs \subseteq RecordedPairs']_vars
    /\ []<>Drained

C18_Witness ==
    /\ proposals = 2
    /\ Drained
    /\ Cardinality(network_messages) = 32
    /\ Cardinality(RecordedPairs) = 32

\* C19 (single live chain): every node holds exactly one chain at its greatest
\* height and an empty list at every lower height, so peek_longest_chain never
\* indexes an empty list; and an append inserts at a height the store did not
\* hold, so it overwrites no chain.
SingleLiveChain ==
    \A i \in NodeIDs :
        /\ Len(chains[i][Max(DOMAIN chains[i])]) = 1
        /\ \A h \in DOMAIN chains[i] : h < Max(DOMAIN chains[i]) => chains[i][h] = <<>>
        /\ ~peek_longest_chain_panics(i)

C19_SingleLiveChain ==
    /\ []SingleLiveChain
    /\ [][ \A i \in NodeIDs :
              chains'[i] # chains[i]
              => Max(DOMAIN chains'[i]) \notin DOMAIN chains[i] ]_vars

C19_Witness ==
    \E i \in NodeIDs, j \in NodeIDs :
        /\ DOMAIN chains[i] = {1, 2, 3}
        /\ chains[i][1] = <<>> /\ chains[i][2] = <<>>
        /\ DOMAIN chains[j] = {1, 2}

\* C20 (append at most once): a block occurs at most once in a node's chain
\* store and no block occurs twice in a stored chain, also when further votes
\* arrive for a block that is above the threshold; a node's greatest height
\* never decreases, grows by at most 1 per step, and only in a handle_message
\* call.
Occurrences(i, block) ==
    {<<h, pos, k>> \in UNION {{h} \X (1 .. Len(chains[i][h])) \X (1 .. h) :
                                h \in DOMAIN chains[i]} :
        k <= Len(chains[i][h][pos]) /\ chains[i][h][pos][k] = block}

AppendedOnce ==
    \A i \in NodeIDs :
        /\ Cardinality(Occurrences(i, QuorumBlock)) <= 1
        /\ \A c \in StoredChains(i) : \A k \in 1 .. Len(c), l \in 1 .. Len(c) :
              c[k] = c[l] => k = l

C20_AppendOnce ==
    /\ []AppendedOnce
    /\ [][ \A i \in NodeIDs :
              /\ Max(DOMAIN chains'[i]) >= Max(DOMAIN chains[i])
              /\ Max(DOMAIN chains'[i]) <= Max(DOMAIN chains[i]) + 1
              /\ Max(DOMAIN chains'[i]) # Max(DOMAIN chains[i])
                    => (last'.op = "handle_message" /\ last'.node = i) ]_vars

C20_Witness ==
    /\ n = 7
    /\ last.op = "handle_message"
    /\ last.ret # <<>>
    /\ VoteCount(last.node, QuorumBlock) = 7
    /\ Cardinality(Occurrences(last.node, QuorumBlock)) = 1

====
